---- MODULE Spec2Model ----
(***************************************************************************)
(* Track initiation (gated data association, M-of-N confirmation, track-id *)
(* pool) as implemented by initialize_tracks in the two source variants    *)
(* src/test1.py and src/test4_2.py.                                        *)
(*                                                                         *)
(* Python lists are sequences; a Python index k (0-based) addresses        *)
(* element k+1 of the sequence.  Python dicts are functions whose DOMAIN   *)
(* is the key set.  A measurement is the 5-tuple                           *)
(* <<azimuth, elevation, range, doppler, timestamp>>.                      *)
(***************************************************************************)
EXTENDS Integers, Sequences, FiniteSets, TLC

(* ---------------------------- bounds ----------------------------------- *)

\* longest measurement sequence fed to initialize_tracks
MaxMeasurements == 7

\* longest pool explored when get_next_track_id / release_track_id are
\* exercised on their own
MaxSlots == 5

(* ---------------------------- inputs ----------------------------------- *)

\* detections <<azimuth, elevation, range, doppler>>; the timestamp is added
\* when the detection is fed (a time-ordered stream, one time unit apart).
\* Positions on the x axis: 0, +25, -25; the two outer ones are exactly
\* range_threshold apart, the last detection is exactly doppler_threshold
\* away from the others in Doppler.
Detections == { <<0, 0, 0, 1>>, <<0, 0, 25, 1>>, <<180, 0, 25, 1>>, <<0, 0, 25, 6>> }

DopplerThresholds == {5}
RangeThresholds == {50}
TimeThresholds == {2}
FirmThresholds == {3, 5, 7}
Variants == {"test1", "test4_2"}

\* the texts the mode can be given as: the three items of the combo box and
\* two texts that are none of them
Modes == {"3-state", "5-state", "7-state", "2-state", ""}

VARIABLES
    variant,            \* which source file is running
    mode,               \* the mode text handed to select_initiation_mode
    doppler_threshold, range_threshold, time_threshold, firm_threshold,
    measurements,       \* the prefix of the input list consumed so far
    measurement,        \* loop variable: the measurement of the last cycle
    assigned,           \* local of the last cycle
    new_track_id,       \* local, keeps its value across cycles
    new_track_idx,      \* local, keeps its value across cycles
    tracks, track_id_list, miss_counts, hit_counts,
    tentative_ids, firm_ids, state_map,
    pc                  \* "loop", "returned", "raised" (exception left the function)

vars == << variant, mode, doppler_threshold, range_threshold, time_threshold,
           firm_threshold, measurements, measurement, assigned, new_track_id,
           new_track_idx, tracks, track_id_list, miss_counts, hit_counts,
           tentative_ids, firm_ids, state_map, pc >>

(* ------------------------- dict / list helpers -------------------------- *)

EmptyDict == << >>

\* d[k] = v
Put(d, k, v) == [x \in (DOMAIN d) \cup {k} |-> IF x = k THEN v ELSE d[x]]

\* d.get(k, default)
Get(d, k, default) == IF k \in DOMAIN d THEN d[k] ELSE default

\* d.pop(k, None)
Pop(d, k) == [x \in (DOMAIN d) \ {k} |-> d[x]]

\* list with the element at (1-based) position p removed
RemoveAt(s, p) == [j \in 1..(Len(s) - 1) |-> IF j < p THEN s[j] ELSE s[j + 1]]

\* list.index(x): 0-based position of the first element equal to x, -1 when
\* Python would raise ValueError
IndexOf(s, x) ==
    IF \E j \in 1..Len(s) : s[j] = x
    THEN (CHOOSE j \in 1..Len(s) : s[j] = x /\ \A h \in 1..(j - 1) : s[h] # x) - 1
    ELSE -1

Abs(n) == IF n < 0 THEN -n ELSE n

(* ------------------------- coordinate transform ------------------------- *)

\* cos and sin of a multiple of 90 degrees
Cos90(deg) == CASE deg % 360 = 0 -> 1 [] deg % 360 = 180 -> -1 [] OTHER -> 0
Sin90(deg) == CASE deg % 360 = 90 -> 1 [] deg % 360 = 270 -> -1 [] OTHER -> 0

sph2cart(az, el, r) ==
    << r * Cos90(el) * Cos90(az), r * Cos90(el) * Sin90(az), r * Sin90(el) >>

\* np.linalg.norm(a - b), for the vectors whose norm is an integer
norm(a, b) ==
    LET sq == (a[1] - b[1]) * (a[1] - b[1]) + (a[2] - b[2]) * (a[2] - b[2])
              + (a[3] - b[3]) * (a[3] - b[3])
        top == Abs(a[1] - b[1]) + Abs(a[2] - b[2]) + Abs(a[3] - b[3])
    IN  CHOOSE n \in 0..top : n * n = sq

(* ------------------------------ gates ----------------------------------- *)

\* doppler_correlation that also accepts a difference equal to the threshold
doppler_correlation_inclusive(doppler_1, doppler_2, threshold) ==
    Abs(doppler_1 - doppler_2) <= threshold

doppler_correlation(doppler_1, doppler_2, threshold) ==
    Abs(doppler_1 - doppler_2) < threshold

range_gate(distance, threshold) == distance < threshold

\* the association condition with the range gate left out
Gates_norange(m, last, dthr, rthr, tthr) ==
    LET doppler_correlated == doppler_correlation(m[4], last[4], dthr)
        time_diff == m[5] - last[5]
    IN  doppler_correlated /\ time_diff <= tthr

\* the condition of the association loop for measurement m against the
\* last measurement of a track
Gates(m, last, dthr, rthr, tthr) ==
    LET distance == norm(sph2cart(m[1], m[2], m[3]), sph2cart(last[1], last[2], last[3]))
        doppler_correlated == doppler_correlation(m[4], last[4], dthr)
        range_satisfied == range_gate(distance, rthr)
        time_diff == m[5] - last[5]
    IN  doppler_correlated /\ range_satisfied /\ time_diff <= tthr

(* ---------------------------- track-id pool ----------------------------- *)

\* get_next_track_id without the test for a free slot: the first slot is
\* handed out again
get_next_track_id_nocheck(list) ==
    IF Len(list) > 0
    THEN [id |-> list[1].id, idx |-> 0, list |-> [list EXCEPT ![1].state = "occupied"]]
    ELSE [id |-> Len(list) + 1, idx |-> Len(list),
          list |-> Append(list, [id |-> Len(list) + 1, state |-> "occupied"])]

\* get_next_track_id without reuse: a slot is always appended
get_next_track_id_append(list) ==
    [id |-> Len(list) + 1, idx |-> Len(list),
     list |-> Append(list, [id |-> Len(list) + 1, state |-> "occupied"])]

\* get_next_track_id: the result and the pool it leaves behind
get_next_track_id(list) ==
    IF \E j \in 1..Len(list) : list[j].state = "free"
    THEN LET j == CHOOSE j \in 1..Len(list) :
                      /\ list[j].state = "free"
                      /\ \A h \in 1..(j - 1) : list[h].state # "free"
         IN  [id |-> list[j].id, idx |-> j - 1,
              list |-> [list EXCEPT ![j].state = "occupied"]]
    ELSE [id |-> Len(list) + 1, idx |-> Len(list),
          list |-> Append(list, [id |-> Len(list) + 1, state |-> "occupied"])]

\* track_id_list[idx] exists: a list of n entries takes the indices -n..n-1,
\* a negative index counting from the end; any other index is an IndexError
InRange(list, idx) == -Len(list) <= idx /\ idx < Len(list)

\* release_track_id that takes the slot out of the pool
release_track_id_remove(list, idx) ==
    RemoveAt(list, IF idx >= 0 THEN idx + 1 ELSE Len(list) + idx + 1)

\* release_track_id that leaves the slot occupied
release_track_id_keep(list, idx) == list

\* release_track_id, for an index in range
release_track_id(list, idx) ==
    [list EXCEPT ![IF idx >= 0 THEN idx + 1 ELSE Len(list) + idx + 1].state = "free"]

(* ------------------------------- the mode ------------------------------- *)

\* the else branch of select_initiation_mode: raise ValueError
InvalidMode == 0

\* select_initiation_mode that falls back to the 3-state mode instead of
\* raising
select_initiation_mode_default(m) ==
    CASE m = "3-state" -> 3
      [] m = "5-state" -> 5
      [] m = "7-state" -> 7
      [] OTHER -> 3

\* select_initiation_mode; InvalidMode stands for the ValueError
select_initiation_mode(m) ==
    CASE m = "3-state" -> 3
      [] m = "5-state" -> 5
      [] m = "7-state" -> 7
      [] OTHER -> InvalidMode

(* --------------------------- state progression -------------------------- *)

state_progression(v, n) ==
    IF v = "test1"
    THEN CASE n = 3 -> << "Pos", "Tentative", "Firm" >>
           [] n = 5 -> << "Pos", "Pos", "Tentative", "Tentative", "Firm" >>
           [] n = 7 -> << "Pos", "Pos", "Tentative", "Tentative", "Tentative", "Firm" >>
    ELSE CASE n = 3 -> << "Poss1", "Tentative1", "Firm" >>
           [] n = 5 -> << "Poss1", "Poss2", "Tentative1", "Tentative2", "Firm" >>
           [] n = 7 -> << "Poss1", "Poss2", "Tentative1", "Tentative2", "Tentative3", "Firm" >>

progression_states == state_progression(variant, firm_threshold)

(* ------------------------ the locals as a record ------------------------ *)

\* the mutable locals of initialize_tracks, passed through the steps of one
\* cycle; raised = an exception has left the function
Locals ==
    [tracks |-> tracks, track_id_list |-> track_id_list,
     miss_counts |-> miss_counts, hit_counts |-> hit_counts,
     tentative_ids |-> tentative_ids, firm_ids |-> firm_ids,
     state_map |-> state_map, assigned |-> FALSE,
     new_track_id |-> new_track_id, new_track_idx |-> new_track_idx,
     raised |-> FALSE]

Last(s) == s[Len(s)]

(* ------------------------- src/test1.py: one cycle ---------------------- *)

\* the association loop without its break: the last gating track wins
FirstMatch_test1_nobreak(trks, m, dthr, rthr, tthr) ==
    IF \E j \in 1..Len(trks) : Gates(m, Last(trks[j].measurements), dthr, rthr, tthr)
    THEN (CHOOSE j \in 1..Len(trks) :
              /\ Gates(m, Last(trks[j].measurements), dthr, rthr, tthr)
              /\ \A h \in (j + 1)..Len(trks) :
                    ~Gates(m, Last(trks[h].measurements), dthr, rthr, tthr)) - 1
    ELSE -1

\* 0-based position of the first track whose last measurement gates with m,
\* -1 if the loop ends without a break
FirstMatch_test1(trks, m, dthr, rthr, tthr) ==
    IF \E j \in 1..Len(trks) : Gates(m, Last(trks[j].measurements), dthr, rthr, tthr)
    THEN (CHOOSE j \in 1..Len(trks) :
              /\ Gates(m, Last(trks[j].measurements), dthr, rthr, tthr)
              /\ \A h \in 1..(j - 1) :
                    ~Gates(m, Last(trks[h].measurements), dthr, rthr, tthr)) - 1
    ELSE -1

\* the hit state with the ladder index test off by one
HitState_test1_offbyone(old, h, prog, fthr) ==
    LET s1 == IF h <= Len(prog) THEN prog[h] ELSE old
    IN  IF h >= fthr THEN "Firm" ELSE s1

\* the state written to a track on a hit that brings its hit count to h
HitState_test1(old, h, prog, fthr) ==
    LET s1 == IF h < Len(prog) THEN prog[h] ELSE old
    IN  IF h >= fthr THEN "Firm" ELSE s1

\* the hit branch with the counters left alone once the track is firm
Hit_test1_firmskip(st, k, m, prog, fthr) ==
    LET track == st.tracks[k + 1]
        id == track.id
    IN  IF id \notin DOMAIN st.hit_counts
        THEN [st EXCEPT !.tracks[k + 1].measurements = Append(@, m), !.raised = TRUE]
        ELSE IF id \in st.firm_ids
        THEN [st EXCEPT
                !.tracks[k + 1].measurements = Append(@, m),
                !.assigned = TRUE]
        ELSE LET h == st.hit_counts[id] + 1
             IN  [st EXCEPT
                    !.tracks[k + 1].measurements = Append(@, m),
                    !.tracks[k + 1].state = HitState_test1(track.state, h, prog, fthr),
                    !.hit_counts = Put(@, id, h),
                    !.miss_counts = Put(@, id, 0),
                    !.firm_ids = IF h >= fthr THEN @ \cup {id} ELSE @,
                    !.assigned = TRUE]

\* the body of "if doppler_correlated and range_satisfied and ..." for the
\* track at 0-based position k
Hit_test1(st, k, m, prog, fthr) ==
    LET track == st.tracks[k + 1]
        id == track.id
    IN  IF id \notin DOMAIN st.hit_counts
        THEN [st EXCEPT !.tracks[k + 1].measurements = Append(@, m), !.raised = TRUE]
        ELSE LET h == st.hit_counts[id] + 1
             IN  [st EXCEPT
                    !.tracks[k + 1].measurements = Append(@, m),
                    !.tracks[k + 1].state = HitState_test1(track.state, h, prog, fthr),
                    !.hit_counts = Put(@, id, h),
                    !.miss_counts = Put(@, id, 0),
                    !.firm_ids = IF h >= fthr THEN @ \cup {id} ELSE @,
                    !.assigned = TRUE]

\* the body of "if not assigned" with the hit counts started afresh for the
\* new track
Create_test1_resetcounts(st, m, prog) ==
    LET g == get_next_track_id(st.track_id_list)
    IN  [st EXCEPT
           !.track_id_list = g.list,
           !.tracks = Append(@, [id |-> g.id, state |-> prog[1], measurements |-> << m >>]),
           !.hit_counts = Put(EmptyDict, g.id, 1),
           !.miss_counts = Put(@, g.id, 0),
           !.new_track_id = g.id,
           !.new_track_idx = g.idx]

\* the body of "if not assigned"
Create_test1(st, m, prog) ==
    LET g == get_next_track_id(st.track_id_list)
    IN  [st EXCEPT
           !.track_id_list = g.list,
           !.tracks = Append(@, [id |-> g.id, state |-> prog[1], measurements |-> << m >>]),
           !.hit_counts = Put(@, g.id, 1),
           !.miss_counts = Put(@, g.id, 0),
           !.new_track_id = g.id,
           !.new_track_idx = g.idx]

\* the association loop followed by the creation of a track also when the
\* loop has assigned the measurement
Associate_test1_alwayscreate(st, m, prog, dthr, rthr, tthr, fthr) ==
    LET k == FirstMatch_test1(st.tracks, m, dthr, rthr, tthr)
    IN  IF k >= 0
        THEN Create_test1(Hit_test1(st, k, m, prog, fthr), m, prog)
        ELSE Create_test1(st, m, prog)

\* the association loop followed by the creation of a track
Associate_test1(st, m, prog, dthr, rthr, tthr, fthr) ==
    LET k == FirstMatch_test1(st.tracks, m, dthr, rthr, tthr)
    IN  IF k >= 0 THEN Hit_test1(st, k, m, prog, fthr) ELSE Create_test1(st, m, prog)

\* the miss threshold chosen by the if/elif chain of the eviction loop
miss_threshold_test1(current_state, fthr) ==
    CASE current_state = "Pos" -> 1
      [] current_state = "Tentative" -> 2
      [] current_state = "Firm" -> 3
      [] OTHER -> fthr

\* the guard of the miss update: "not assigned and miss_counts.get(id, 0) > 0"
MissGuard_test1(st, id) == ~st.assigned /\ Get(st.miss_counts, id, 0) > 0

\* the release test: "miss_counts[id] >= miss_threshold"
ReleaseTest_test1(misses, threshold) == misses >= threshold

RECURSIVE EvictLoop_test1(_, _, _)
\* "for track in tracks:" from iterator position k (0-based); a removal
\* shortens the list under the iterator, which then skips one element
EvictLoop_test1(st, k, fthr) ==
    IF st.raised \/ k >= Len(st.tracks) THEN st
    ELSE LET track == st.tracks[k + 1]
             id == track.id
         IN  IF ~MissGuard_test1(st, id) THEN EvictLoop_test1(st, k + 1, fthr)
             ELSE LET n == st.miss_counts[id] + 1
                      st1 == [st EXCEPT !.miss_counts = Put(@, id, n)]
                      thr == miss_threshold_test1(track.state, fthr)
                      slot == IndexOf(st1.track_id_list, [id |-> id, state |-> "occupied"])
                  IN  IF ~ReleaseTest_test1(n, thr) THEN EvictLoop_test1(st1, k + 1, fthr)
                      ELSE IF slot < 0 THEN [st1 EXCEPT !.raised = TRUE]
                      ELSE EvictLoop_test1(
                               [st1 EXCEPT
                                  !.track_id_list = release_track_id(@, slot),
                                  !.tracks = RemoveAt(@, IndexOf(@, track) + 1)],
                               k + 1, fthr)

\* one iteration of "for i, measurement in enumerate(measurements)"
Cycle_test1(st, m, prog, dthr, rthr, tthr, fthr) ==
    LET a == Associate_test1(st, m, prog, dthr, rthr, tthr, fthr)
    IN  IF a.raised THEN a ELSE EvictLoop_test1(a, 0, fthr)

(* ------------------------ src/test4_2.py: one cycle --------------------- *)

\* a released entry of tracks ("tracks[track_id] = None")
None == [track_id |-> 0, measurements |-> << >>]

\* the value of state_map.get(track_id) for a missing key
NoState == "None"

\* 0-based position of the first entry that is not None and whose last
\* measurement gates with m, -1 if the loop ends without a break
FirstMatch_test4_2(trks, m, dthr, rthr, tthr) ==
    LET hit(j) == /\ trks[j] # None
                  /\ Gates(m, Last(trks[j].measurements)[1], dthr, rthr, tthr)
    IN  IF \E j \in 1..Len(trks) : hit(j)
        THEN (CHOOSE j \in 1..Len(trks) : hit(j) /\ \A h \in 1..(j - 1) : ~hit(h)) - 1
        ELSE -1

\* "Track ID assignment logic" for the entry at position track_id
HitCounters_test4_2(st, track_id, prog, fthr) ==
    IF track_id \in st.firm_ids THEN st
    ELSE IF track_id \in st.tentative_ids
    THEN IF track_id \notin DOMAIN st.hit_counts THEN [st EXCEPT !.raised = TRUE]
         ELSE LET h == st.hit_counts[track_id] + 1
                  s1 == IF h < Len(prog) THEN Put(st.state_map, track_id, prog[h])
                        ELSE st.state_map
              IN  [st EXCEPT
                     !.hit_counts = Put(@, track_id, h),
                     !.miss_counts = Put(@, track_id, 0),
                     !.state_map = IF h >= fthr THEN Put(s1, track_id, "Firm") ELSE s1,
                     !.firm_ids = IF h >= fthr THEN @ \cup {track_id} ELSE @]
    ELSE [st EXCEPT
            !.tentative_ids = @ \cup {track_id},
            !.hit_counts = Put(@, track_id, 1),
            !.miss_counts = Put(@, track_id, 0),
            !.state_map = Put(@, track_id, prog[1])]

\* the body of "if doppler_correlated and range_satisfied and ..." for the
\* entry at position track_id
Hit_test4_2(st, track_id, m, prog, fthr) ==
    LET c == HitCounters_test4_2(st, track_id, prog, fthr)
    IN  IF c.raised THEN c
        ELSE IF track_id \notin DOMAIN c.state_map THEN [c EXCEPT !.raised = TRUE]
        ELSE [c EXCEPT
                !.tracks[track_id + 1].measurements = Append(@, << m, c.state_map[track_id] >>),
                !.assigned = TRUE]

\* the key under which the bookkeeping of a new track is written
CreateKey_test4_2(g) == g.idx

\* the body of "if not assigned"
Create_test4_2(st, m, prog) ==
    LET g == get_next_track_id(st.track_id_list)
        key == CreateKey_test4_2(g)
    IN  [st EXCEPT
           !.track_id_list = g.list,
           !.tracks = Append(@, [track_id |-> g.id, measurements |-> << << m, prog[1] >> >>]),
           !.miss_counts = Put(@, key, 0),
           !.hit_counts = Put(@, key, 1),
           !.tentative_ids = @ \cup {key},
           !.state_map = Put(@, key, prog[1]),
           !.new_track_id = g.id,
           !.new_track_idx = g.idx]

Associate_test4_2(st, m, prog, dthr, rthr, tthr, fthr) ==
    LET k == FirstMatch_test4_2(st.tracks, m, dthr, rthr, tthr)
    IN  IF k >= 0 THEN Hit_test4_2(st, k, m, prog, fthr) ELSE Create_test4_2(st, m, prog)

\* get_miss_threshold; -1 stands for falling off the end (returns None)
get_miss_threshold(current_state, fthr) ==
    CASE current_state \in {"Poss1", "Poss2"} -> 1
      [] current_state \in {"Tentative1", "Tentative2", "Tentative3"} ->
             IF fthr = 3 THEN 2 ELSE 3
      [] current_state = "Firm" -> IF fthr = 3 THEN 3 ELSE 5
      [] OTHER -> -1

\* the guard of the miss update:
\* "not assigned and track['track_id'] == new_track_id"
MissGuard_test4_2(st, track) == ~st.assigned /\ track.track_id = st.new_track_id

\* the release test with a strict comparison
ReleaseTest_test4_2_strict(misses, threshold) == misses > threshold

\* the release test: "miss_counts[track_id] >= miss_threshold"
ReleaseTest_test4_2(misses, threshold) == misses >= threshold

RECURSIVE EvictLoop_test4_2(_, _, _)
\* "for track_id, track in enumerate(tracks):" from position track_id
EvictLoop_test4_2(st, track_id, fthr) ==
    IF st.raised \/ track_id >= Len(st.tracks) THEN st
    ELSE LET track == st.tracks[track_id + 1]
             current_state == Get(st.state_map, track_id, NoState)
             thr == get_miss_threshold(current_state, fthr)
         IN  IF track = None THEN EvictLoop_test4_2(st, track_id + 1, fthr)
             \* None.startswith: AttributeError
             ELSE IF current_state = NoState THEN [st EXCEPT !.raised = TRUE]
             \* miss_counts[track_id]: KeyError
             ELSE IF track_id \notin DOMAIN st.miss_counts THEN [st EXCEPT !.raised = TRUE]
             ELSE LET n == IF MissGuard_test4_2(st, track)
                           THEN st.miss_counts[track_id] + 1
                           ELSE st.miss_counts[track_id]
                      st1 == [st EXCEPT !.miss_counts = Put(@, track_id, n)]
                  IN  \* int >= None: TypeError
                      IF thr < 0 THEN [st1 EXCEPT !.raised = TRUE]
                      ELSE IF ~ReleaseTest_test4_2(n, thr)
                      THEN EvictLoop_test4_2(st1, track_id + 1, fthr)
                      \* track_id_list[track_id]: IndexError
                      ELSE IF track_id >= Len(st1.track_id_list)
                      THEN [st1 EXCEPT !.tracks[track_id + 1] = None, !.raised = TRUE]
                      ELSE EvictLoop_test4_2(
                               [st1 EXCEPT
                                  !.tracks[track_id + 1] = None,
                                  !.track_id_list = release_track_id(@, track_id),
                                  !.state_map = Pop(@, track_id)],
                               track_id + 1, fthr)

\* one iteration of "for i, measurement in enumerate(measurements)"
Cycle_test4_2(st, m, prog, dthr, rthr, tthr, fthr) ==
    LET a == Associate_test4_2(st, m, prog, dthr, rthr, tthr, fthr)
    IN  IF a.raised THEN a ELSE EvictLoop_test4_2(a, 0, fthr)

(* ------------------------------ the program ----------------------------- *)

\* the locals of initialize_tracks with a pool that already holds one free
\* slot
Init_prealloc ==
    /\ variant \in Variants
    /\ doppler_threshold \in DopplerThresholds
    /\ range_threshold \in RangeThresholds
    /\ time_threshold \in TimeThresholds
    /\ firm_threshold \in FirmThresholds
    /\ mode \in {m \in Modes : select_initiation_mode(m) = firm_threshold}
    /\ measurements = << >>
    /\ measurement = << >>
    /\ assigned = FALSE
    /\ new_track_id = 0
    /\ new_track_idx = 0
    /\ tracks = << >>
    /\ track_id_list = << [id |-> 1, state |-> "free"] >>
    /\ miss_counts = EmptyDict
    /\ hit_counts = EmptyDict
    /\ tentative_ids = {}
    /\ firm_ids = {}
    /\ state_map = EmptyDict
    /\ pc = "loop"

\* initialize_tracks is entered: its locals before the first measurement
Init ==
    /\ variant \in Variants
    /\ doppler_threshold \in DopplerThresholds
    /\ range_threshold \in RangeThresholds
    /\ time_threshold \in TimeThresholds
    /\ firm_threshold \in FirmThresholds
    /\ mode \in {m \in Modes : select_initiation_mode(m) = firm_threshold}
    /\ measurements = << >>
    /\ measurement = << >>
    /\ assigned = FALSE
    /\ new_track_id = 0
    /\ new_track_idx = 0
    /\ tracks = << >>
    /\ track_id_list = << >>
    /\ miss_counts = EmptyDict
    /\ hit_counts = EmptyDict
    /\ tentative_ids = {}
    /\ firm_ids = {}
    /\ state_map = EmptyDict
    /\ pc = "loop"

\* the variables after a cycle that ended in the locals r
Store(r, m) ==
    /\ measurements' = Append(measurements, m)
    /\ measurement' = m
    /\ assigned' = r.assigned
    /\ new_track_id' = r.new_track_id
    /\ new_track_idx' = r.new_track_idx
    /\ tracks' = r.tracks
    /\ track_id_list' = r.track_id_list
    /\ miss_counts' = r.miss_counts
    /\ hit_counts' = r.hit_counts
    /\ tentative_ids' = r.tentative_ids
    /\ firm_ids' = r.firm_ids
    /\ state_map' = r.state_map
    /\ pc' = IF r.raised THEN "raised" ELSE "loop"
    /\ UNCHANGED << variant, mode, doppler_threshold, range_threshold,
                    time_threshold, firm_threshold >>

\* the next measurement of the stream: a detection stamped with its time
Stamp(d) == << d[1], d[2], d[3], d[4], Len(measurements) >>

ProcessMeasurement_test1 ==
    /\ pc = "loop"
    /\ variant = "test1"
    /\ Len(measurements) < MaxMeasurements
    /\ \E d \in Detections :
          Store(Cycle_test1(Locals, Stamp(d), progression_states, doppler_threshold,
                            range_threshold, time_threshold, firm_threshold),
                Stamp(d))

ProcessMeasurement_test4_2 ==
    /\ pc = "loop"
    /\ variant = "test4_2"
    /\ Len(measurements) < MaxMeasurements
    /\ \E d \in Detections :
          Store(Cycle_test4_2(Locals, Stamp(d), progression_states, doppler_threshold,
                              range_threshold, time_threshold, firm_threshold),
                Stamp(d))

\* the input is exhausted: "return tracks, track_id_list, ..."
Return ==
    /\ pc = "loop"
    /\ pc' = "returned"
    /\ UNCHANGED << variant, mode, doppler_threshold, range_threshold, time_threshold,
                    firm_threshold, measurements, measurement, assigned,
                    new_track_id, new_track_idx, tracks, track_id_list,
                    miss_counts, hit_counts, tentative_ids, firm_ids, state_map >>

Next == ProcessMeasurement_test1 \/ ProcessMeasurement_test4_2 \/ Return

Spec == Init /\ [][Next]_vars

(* ----------------- the program started from the mode text --------------- *)

\* execute_track_initialization is entered: the mode text is read, no
\* firm threshold is known yet
InitApp ==
    /\ variant \in Variants
    /\ doppler_threshold \in DopplerThresholds
    /\ range_threshold \in RangeThresholds
    /\ time_threshold \in TimeThresholds
    /\ firm_threshold = InvalidMode
    /\ mode \in Modes
    /\ measurements = << >>
    /\ measurement = << >>
    /\ assigned = FALSE
    /\ new_track_id = 0
    /\ new_track_idx = 0
    /\ tracks = << >>
    /\ track_id_list = << >>
    /\ miss_counts = EmptyDict
    /\ hit_counts = EmptyDict
    /\ tentative_ids = {}
    /\ firm_ids = {}
    /\ state_map = EmptyDict
    /\ pc = "start"

\* "firm_threshold = select_initiation_mode(mode)" followed by the call of
\* initialize_tracks; a ValueError ends in the except branch, which shows
\* "Error: ..." and returns
execute_track_initialization ==
    /\ pc = "start"
    /\ IF select_initiation_mode(mode) = InvalidMode
       THEN /\ pc' = "error"
            /\ UNCHANGED firm_threshold
       ELSE /\ pc' = "loop"
            /\ firm_threshold' = select_initiation_mode(mode)
    /\ UNCHANGED << variant, mode, doppler_threshold, range_threshold, time_threshold,
                    measurements, measurement, assigned,
                    new_track_id, new_track_idx, tracks, track_id_list,
                    miss_counts, hit_counts, tentative_ids, firm_ids, state_map >>

NextApp ==
    \/ execute_track_initialization
    \/ ProcessMeasurement_test1
    \/ ProcessMeasurement_test4_2
    \/ Return

SpecApp == InitApp /\ [][NextApp]_vars

(* ------------------ the association condition on its own --------------- *)

\* measurements (azimuth, elevation, range, doppler, time) on the x axis:
\* distances 0..60 around the range threshold, Doppler differences 0..6
\* around the Doppler threshold, time differences -3..3 around the time
\* threshold
GateMeasurements ==
    { << az, 0, r, d, t >> : az \in {0, 180}, r \in {0, 25, 30}, d \in {1, 6, 7},
                            t \in 0..3 }

\* a candidate measurement and a track whose last history entry is given
InitGate ==
    /\ variant \in Variants
    /\ doppler_threshold \in DopplerThresholds
    /\ range_threshold \in RangeThresholds
    /\ time_threshold \in TimeThresholds
    /\ firm_threshold = 3
    /\ mode = "3-state"
    /\ measurement \in GateMeasurements
    /\ \E last \in GateMeasurements : measurements = << last >>
    /\ assigned = FALSE
    /\ new_track_id = 0
    /\ new_track_idx = 0
    /\ tracks = << >>
    /\ track_id_list = << >>
    /\ miss_counts = EmptyDict
    /\ hit_counts = EmptyDict
    /\ tentative_ids = {}
    /\ firm_ids = {}
    /\ state_map = EmptyDict
    /\ pc = "gate"

\* the condition of "if doppler_correlated and range_satisfied and
\* time_diff <= time_threshold" is evaluated for the candidate
EvaluateGate ==
    /\ pc = "gate"
    /\ assigned' = Gates(measurement, measurements[1], doppler_threshold,
                         range_threshold, time_threshold)
    /\ pc' = "gated"
    /\ UNCHANGED << variant, mode, doppler_threshold, range_threshold, time_threshold,
                    firm_threshold, measurements, measurement,
                    new_track_id, new_track_idx, tracks, track_id_list,
                    miss_counts, hit_counts, tentative_ids, firm_ids, state_map >>

NextGate == EvaluateGate

SpecGate == InitGate /\ [][NextGate]_vars

(* --------------------- the pool functions on their own ------------------ *)

InitPool ==
    /\ variant = "test1"
    /\ doppler_threshold \in DopplerThresholds
    /\ range_threshold \in RangeThresholds
    /\ time_threshold \in TimeThresholds
    /\ firm_threshold = 3
    /\ mode = "3-state"
    /\ measurements = << >>
    /\ measurement = << >>
    /\ assigned = FALSE
    /\ new_track_id = 0
    /\ new_track_idx = 0
    /\ tracks = << >>
    /\ track_id_list = << >>
    /\ miss_counts = EmptyDict
    /\ hit_counts = EmptyDict
    /\ tentative_ids = {}
    /\ firm_ids = {}
    /\ state_map = EmptyDict
    /\ pc = "pool"

PoolFrame ==
    UNCHANGED << variant, mode, doppler_threshold, range_threshold, time_threshold,
                 firm_threshold, measurements, measurement, assigned, tracks,
                 miss_counts, hit_counts, tentative_ids, firm_ids, state_map >>

\* new_track_id, new_track_idx = get_next_track_id(track_id_list)
Allocate ==
    /\ pc \in {"pool", "allocated", "released"}
    /\ \/ Len(track_id_list) < MaxSlots
       \/ \E j \in 1..Len(track_id_list) : track_id_list[j].state = "free"
    /\ LET g == get_next_track_id(track_id_list)
       IN  /\ track_id_list' = g.list
           /\ new_track_id' = g.id
           /\ new_track_idx' = g.idx
    /\ pc' = "allocated"
    /\ PoolFrame

\* release_track_id(track_id_list, idx), called with any index from -1 to
\* len(track_id_list); an IndexError ends the run
Release ==
    /\ pc \in {"pool", "allocated", "released"}
    /\ \E idx \in (-1)..Len(track_id_list) :
          IF InRange(track_id_list, idx)
          THEN /\ track_id_list' = release_track_id(track_id_list, idx)
               /\ pc' = "released"
          ELSE /\ track_id_list' = track_id_list
               /\ pc' = "index_error"
    /\ UNCHANGED << new_track_id, new_track_idx >>
    /\ PoolFrame

NextPool == Allocate \/ Release

SpecPool == InitPool /\ [][NextPool]_vars

(* ------------------------- reading the track table ---------------------- *)

\* A track is named by the key under which the code reads its bookkeeping:
\* its id in test1.py (hit_counts[track['id']]), its position in tracks in
\* test4_2.py (hit_counts[track_id], track_id from enumerate(tracks)).
ActiveIn(trks) ==
    IF variant = "test1"
    THEN {trks[j].id : j \in 1..Len(trks)}
    ELSE {j - 1 : j \in {x \in 1..Len(trks) : trks[x] # None}}

\* position (1-based) of track h in the list
PosIn(trks, h) ==
    IF variant = "test1"
    THEN CHOOSE j \in 1..Len(trks) : trks[j].id = h
    ELSE h + 1

\* the TrackId the track carries
TrackIdIn(trks, h) ==
    IF variant = "test1" THEN trks[PosIn(trks, h)].id ELSE trks[PosIn(trks, h)].track_id

\* the measurements of the track's history, oldest first
HistoryIn(trks, h) ==
    IF variant = "test1"
    THEN trks[PosIn(trks, h)].measurements
    ELSE [j \in 1..Len(trks[PosIn(trks, h)].measurements) |->
             trks[PosIn(trks, h)].measurements[j][1]]

StateIn(trks, smap, h) ==
    IF variant = "test1" THEN trks[PosIn(trks, h)].state ELSE Get(smap, h, NoState)

\* the same, read in the current state
Active == ActiveIn(tracks)
Pos(h) == PosIn(tracks, h)
TrackId(h) == TrackIdIn(tracks, h)
History(h) == HistoryIn(tracks, h)
State(h) == StateIn(tracks, state_map, h)
HitCount(h) == Get(hit_counts, h, -1)
MissCount(h) == Get(miss_counts, h, -1)

\* the eviction threshold the running variant uses for a state
Threshold(s) ==
    IF variant = "test1"
    THEN miss_threshold_test1(s, firm_threshold)
    ELSE get_miss_threshold(s, firm_threshold)

\* the provisional ladder: the progression without its final "Firm"
Ladder == SubSeq(progression_states, 1, Len(progression_states) - 1)

Min(a, b) == IF a < b THEN a ELSE b

\* a cycle ran to its end in this step
CycleDone == measurements' # measurements /\ pc' = "loop"

\* the key of the track created by this step's cycle, when it created one
NewKey ==
    IF variant = "test1" THEN new_track_id' ELSE Len(tracks)

\* m gates with the last history entry of track h
GatesTrack(m, h) ==
    Gates(m, Last(History(h)), doppler_threshold, range_threshold, time_threshold)

(* ------------------------------- claims --------------------------------- *)

\* the tracks a finished cycle had to decide about: those active before it
\* and the one it created
Candidates == Active \cup (IF ~assigned' THEN {NewKey} ELSE {})

\* the state a candidate is in when the eviction scan looks at it
ScanState(h) ==
    IF h \in Active' THEN StateIn(tracks', state_map', h)
    ELSE IF h \in Active THEN State(h)
    ELSE progression_states[1]

\* the TrackId a candidate carries
CandidateId(h) ==
    IF h \in Active THEN TrackId(h) ELSE new_track_id'

Matched ==
    {h \in Active : h \in Active' /\ HistoryIn(tracks', h) = Append(History(h), measurement')}

\* C2: after a finished cycle the matched or created track has missCount 0
\* and every track that was active and not matched has its previous
\* missCount plus 1.
C2_MissCountUpdate ==
    [][CycleDone =>
         /\ \A h \in Matched : Get(miss_counts', h, -1) = 0
         /\ ~assigned' => Get(miss_counts', NewKey, -1) = 0
         /\ \A h \in Active \ Matched : Get(miss_counts', h, -1) = MissCount(h) + 1]_vars

\* C3: after every processed measurement each active track with
\* hitCount < N is in state ladder[min(hitCount, len(ladder)) - 1]
\* (0-based), each active track with hitCount >= N is Firm, and a track is
\* Firm only if hitCount >= N.
C3_StateFollowsHitCount ==
    pc # "raised" =>
       \A h \in Active :
          /\ HitCount(h) >= 1
          /\ HitCount(h) < firm_threshold =>
                State(h) = Ladder[Min(HitCount(h), Len(Ladder))]
          /\ HitCount(h) >= firm_threshold => State(h) = "Firm"
          /\ State(h) = "Firm" <=> HitCount(h) >= firm_threshold

\* SevenState mode: a track past the end of the ladder but not yet Firm, and
\* one that has become Firm with its seventh hit
C3_Witness ==
    /\ pc = "loop"
    /\ firm_threshold = 7
    /\ \E h \in Active : HitCount(h) = 7 /\ State(h) = "Firm"

\* the active tracks whose last history entry gates with this step's
\* measurement
Gating == {h \in Active : GatesTrack(measurement', h)}

\* C4: when the measurement of a finished cycle gates with the last history
\* entry of one or more active tracks, the earliest-created of them gets the
\* measurement appended and its hitCount raised by one, and every other
\* gating track keeps its history and hitCount.
C4_FirstMatchWins ==
    [][CycleDone =>
         \A first \in Gating :
            (\A g \in Gating : Pos(first) <= Pos(g)) =>
               /\ first \in Active'
               /\ HistoryIn(tracks', first) = Append(History(first), measurement')
               /\ Get(hit_counts', first, -1) = HitCount(first) + 1
               /\ \A h \in Gating \ {first} :
                     /\ h \in Active'
                     /\ HistoryIn(tracks', h) = History(h)
                     /\ Get(hit_counts', h, -1) = HitCount(h)]_vars

\* the last measurement went to a track although it also gated with the
\* last entry of a track created later
C4_Witness ==
    /\ pc = "loop"
    /\ assigned
    /\ \E h1, h2 \in Active :
          /\ Pos(h1) < Pos(h2)
          /\ Len(History(h1)) >= 2
          /\ Last(History(h1)) = measurement
          /\ Gates(measurement, History(h1)[Len(History(h1)) - 1],
                   doppler_threshold, range_threshold, time_threshold)
          /\ GatesTrack(measurement, h2)

\* C5: the ids of the occupied pool slots are pairwise distinct and no two
\* active tracks carry the same TrackId.
C5_DistinctTrackIds ==
    /\ \A i, j \in 1..Len(track_id_list) :
          (/\ i # j
           /\ track_id_list[i].state = "occupied"
           /\ track_id_list[j].state = "occupied")
          => track_id_list[i].id # track_id_list[j].id
    /\ \A i, j \in 1..Len(tracks) :
          (i # j /\ tracks[i] # None /\ tracks[j] # None)
          => (IF variant = "test1" THEN tracks[i].id # tracks[j].id
              ELSE tracks[i].track_id # tracks[j].track_id)

\* three tracks are active at once, each on its own occupied slot
C5_Witness ==
    /\ Cardinality(Active) >= 3
    /\ Cardinality({j \in 1..Len(track_id_list) : track_id_list[j].state = "occupied"}) >= 3

\* C6: get_next_track_id hands out the free slot with the lowest index
\* whenever a slot is free, flipping it to occupied and leaving the pool
\* length unchanged, and appends an occupied slot with id len(slots)+1 only
\* when every slot is occupied.
C6_LowestFreeFirst ==
    [][pc' = "allocated" =>
         LET free == {j \in 1..Len(track_id_list) : track_id_list[j].state = "free"}
             n == Len(track_id_list)
         IN  IF free # {}
             THEN LET low == CHOOSE j \in free : \A g \in free : j <= g
                  IN  /\ new_track_idx' = low - 1
                      /\ new_track_id' = track_id_list[low].id
                      /\ Len(track_id_list') = n
                      /\ track_id_list' = [track_id_list EXCEPT ![low].state = "occupied"]
             ELSE /\ new_track_idx' = n
                  /\ new_track_id' = n + 1
                  /\ track_id_list' = Append(track_id_list, [id |-> n + 1, state |-> "occupied"])]_vars

\* slots 0..2 were occupied, slot 1 was released, and the next allocation
\* took slot index 1 instead of appending
C6_Witness ==
    /\ pc = "allocated"
    /\ new_track_idx = 1
    /\ new_track_id = 2
    /\ Len(track_id_list) >= 3
    /\ \A j \in 1..3 : track_id_list[j].state = "occupied"

\* C7: for a recognized mode, processing a measurement never raises an
\* exception.
C7_NeverRaises == pc # "raised"

\* every measurement consumed so far passes all three gates against its
\* predecessor
ChainStream ==
    \A j \in 2..Len(measurements) :
       Gates(measurements[j], measurements[j - 1],
             doppler_threshold, range_threshold, time_threshold)

\* C8: a stream of N measurements, each gating with its predecessor, is
\* processed without an exception and yields exactly one active track, with
\* hitCount N and state Firm, and a pool of exactly one occupied slot.
C8_FirmAfterNHits ==
    (ChainStream /\ Len(measurements) <= firm_threshold) =>
       /\ pc # "raised"
       /\ Len(measurements) = firm_threshold =>
             /\ Cardinality(Active) = 1
             /\ \A h \in Active : HitCount(h) = firm_threshold /\ State(h) = "Firm"
             /\ track_id_list = << [id |-> 1, state |-> "occupied"] >>

\* C9: a track created by a cycle is active at the end of that cycle, and a
\* track that was created by the previous cycle and is not matched by this
\* one is no longer active at the end of this one.
C9_Pos1EvictedAfterOneMiss ==
    [][CycleDone =>
         /\ ~assigned' => NewKey \in Active'
         /\ \A h \in Active :
               (/\ History(h) = << measurement >>
                /\ h \notin Matched)
               => h \notin Active']_vars

\* the distance between the positions of two measurements
Distance(m, last) ==
    norm(sph2cart(m[1], m[2], m[3]), sph2cart(last[1], last[2], last[3]))

\* the locals as the association step of this step's cycle leaves them,
\* before the eviction scan
Associated ==
    IF variant = "test1"
    THEN Associate_test1(Locals, measurement', progression_states, doppler_threshold,
                         range_threshold, time_threshold, firm_threshold)
    ELSE Associate_test4_2(Locals, measurement', progression_states, doppler_threshold,
                           range_threshold, time_threshold, firm_threshold)

\* C10: a finished cycle never appends its measurement to a track whose last
\* history entry is rangeThreshold or more away from it, and when the
\* measurement gates with no active track the association step creates
\* exactly one track for it, with hitCount 1, the first state of the
\* progression and a one-entry history, leaving the other tracks as they
\* were.
C10_RangeGateSpawnsTrack ==
    [][CycleDone =>
         /\ \A h \in Active :
               (/\ Distance(measurement', Last(History(h))) >= range_threshold
                /\ h \in Active')
               => HistoryIn(tracks', h) = History(h)
         /\ (\A h \in Active : ~GatesTrack(measurement', h)) =>
               \E a \in {Associated} :
                  /\ ~assigned'
                  /\ NewKey \notin Active
                  /\ ActiveIn(a.tracks) = Active \cup {NewKey}
                  /\ \A h \in Active : HistoryIn(a.tracks, h) = History(h)
                  /\ HistoryIn(a.tracks, NewKey) = << measurement' >>
                  /\ Get(a.hit_counts, NewKey, -1) = 1
                  /\ StateIn(a.tracks, a.state_map, NewKey) = progression_states[1]]_vars

\* the last measurement passed the Doppler and time gates of an active track
\* but was rangeThreshold or more away from it, and a new track holds it
C10_Witness ==
    /\ pc = "loop"
    /\ ~assigned
    /\ \E new, old \in Active :
          /\ new # old
          /\ History(new) = << measurement >>
          /\ HitCount(new) = 1
          /\ Last(History(old)) # measurement
          /\ doppler_correlation(measurement[4], Last(History(old))[4], doppler_threshold)
          /\ measurement[5] - Last(History(old))[5] <= time_threshold
          /\ Distance(measurement, Last(History(old))) >= range_threshold

\* C11: whatever the mode, initialize_tracks called with no measurement
\* returns an empty track table and an empty pool.
C11_EmptyInput ==
    (pc = "returned" /\ measurements = << >>)
    => (tracks = << >> /\ track_id_list = << >>)

\* initialize_tracks returned without having been given a measurement
C11_Witness ==
    /\ pc = "returned"
    /\ measurements = << >>
    /\ firm_threshold \in FirmThresholds

\* the mode texts select_initiation_mode knows
RecognizedModes == {"3-state", "5-state", "7-state"}

\* C12: with a mode text that is none of '3-state', '5-state', '7-state'
\* the run ends in the error branch before initialize_tracks is entered: no
\* measurement is processed, no track and no pool slot is created.
C12_UnknownModeRejected ==
    mode \notin RecognizedModes =>
       /\ pc \in {"start", "error"}
       /\ measurements = << >>
       /\ tracks = << >>
       /\ track_id_list = << >>

\* select_initiation_mode raised for an unrecognized mode text
C12_Witness ==
    /\ pc = "error"
    /\ mode \notin RecognizedModes
    /\ tracks = << >>

\* C13: a call of release_track_id that returns normally was given the index
\* of an occupied slot and frees exactly that slot; a call for a slot that is
\* already free, or for an index no slot was allocated at, ends in an error
\* and leaves the pool as it was.
C13_ReleaseMisuseRejected ==
    [][/\ pc' = "released" =>
            \E j \in 1..Len(track_id_list) :
               /\ track_id_list[j].state = "occupied"
               /\ track_id_list' = [track_id_list EXCEPT ![j].state = "free"]
       /\ pc' = "index_error" => track_id_list' = track_id_list]_vars

\* the key the last cycle wrote the bookkeeping of its new track under
WrittenKey == IF variant = "test1" THEN new_track_id ELSE new_track_idx

\* the key the association and eviction loops read the bookkeeping of that
\* track under: the track is the last entry of tracks
ReadKey == IF variant = "test1" THEN tracks[Len(tracks)].id ELSE Len(tracks) - 1

\* C14: the bookkeeping of a track (hit count, miss count, state) is read
\* under the key it was written under: when a cycle has created a track, the
\* key its counters and state were stored under is the key the loops look
\* that track up by, also when the track took a released slot.
C14_SameKeyWrittenAndRead ==
    (measurements # << >> /\ ~assigned) =>
       /\ WrittenKey = ReadKey
       /\ ReadKey \in DOMAIN hit_counts
       /\ ReadKey \in DOMAIN miss_counts

\* the coordinate on the x axis of a measurement with elevation 0 and
\* azimuth 0 or 180
XCoordinate(m) == IF m[1] = 0 THEN m[3] ELSE -m[3]

\* what the three gates compare for the candidate and the last entry
DopplerDiff == Abs(measurement[4] - measurements[1][4])
GateDistance == Abs(XCoordinate(measurement) - XCoordinate(measurements[1]))
TimeDiff == measurement[5] - measurements[1][5]

\* C15: a candidate passes the gate exactly when its Doppler difference is
\* below dopplerThreshold, its distance is below rangeThreshold and its time
\* minus the last entry's time is at most timeThreshold: a Doppler
\* difference or a distance equal to the threshold rejects, a time
\* difference equal to the threshold or negative accepts when the other two
\* gates pass, and failing one gate rejects.
C15_GateCondition ==
    pc = "gated" =>
       /\ assigned <=> (/\ DopplerDiff < doppler_threshold
                        /\ GateDistance < range_threshold
                        /\ TimeDiff <= time_threshold)
       /\ DopplerDiff = doppler_threshold => ~assigned
       /\ GateDistance = range_threshold => ~assigned
       /\ (/\ DopplerDiff < doppler_threshold
           /\ GateDistance < range_threshold
           /\ (TimeDiff = time_threshold \/ TimeDiff < 0)) => assigned

\* a candidate older than the last entry, within range, was rejected because
\* its Doppler difference equals the threshold
C15_Witness ==
    /\ pc = "gated"
    /\ ~assigned
    /\ DopplerDiff = doppler_threshold
    /\ GateDistance < range_threshold
    /\ GateDistance > 0
    /\ TimeDiff < 0

\* the state categories by the labels the two variants use
PosStates == {"Pos", "Poss1", "Poss2"}
TentativeStates == {"Tentative", "Tentative1", "Tentative2", "Tentative3"}

\* C16: the eviction threshold the code uses for the state of an active
\* track is 1 for a Pos state in every mode, 2 (3-state mode) or 3 (5- and
\* 7-state modes) for a Tentative state, and 3 (3-state mode) or 5 (5- and
\* 7-state modes) for Firm; the state of every active track is in one of
\* the three categories.
C16_ThresholdByCategory ==
    pc # "raised" =>
       \A h \in Active :
          /\ State(h) \in PosStates \cup TentativeStates \cup {"Firm"}
          /\ State(h) \in PosStates => Threshold(State(h)) = 1
          /\ State(h) \in TentativeStates =>
                Threshold(State(h)) = (IF mode = "3-state" THEN 2 ELSE 3)
          /\ State(h) = "Firm" =>
                Threshold(State(h)) = (IF mode = "3-state" THEN 3 ELSE 5)

\* C17: a track that is active before a finished cycle, is not the first
\* track the measurement gates with, and is still active after the cycle has
\* the state, the hit count and the history it had before the cycle.
C17_MissLeavesTrackAlone ==
    [][CycleDone =>
         \A h \in Active :
            (/\ h \in Active'
             /\ ~(h \in Gating /\ \A g \in Gating : Pos(h) <= Pos(g)))
            => /\ StateIn(tracks', state_map', h) = State(h)
               /\ Get(hit_counts', h, -1) = HitCount(h)
               /\ HistoryIn(tracks', h) = History(h)]_vars

\* a track with three hits was not matched by the last measurement and is
\* still active, beside the track that holds that measurement
C17_Witness ==
    /\ pc = "loop"
    /\ \E h, other \in Active :
          /\ h # other
          /\ HitCount(h) = Len(History(h))
          /\ Len(History(h)) >= 3
          /\ Last(History(h)) # measurement
          /\ Last(History(other)) = measurement

\* track h of the table trks is as it was before the cycle
SameTrack(a, h) ==
    /\ h \in ActiveIn(a.tracks)
    /\ HistoryIn(a.tracks, h) = History(h)
    /\ Get(a.hit_counts, h, -1) = HitCount(h)
    /\ StateIn(a.tracks, a.state_map, h) = State(h)

\* C18: the association step of a finished cycle puts the measurement into
\* the history of exactly one track: either one track that was active gets
\* it appended with its hit count raised by one, every other track stays as
\* it was and no track is created, or every track that was active stays as
\* it was and exactly one track is created, holding only the measurement.
C18_ExactlyOneTrackTakesIt ==
    [][CycleDone =>
         \E a \in {Associated} :
            \/ /\ ActiveIn(a.tracks) = Active
               /\ \E h \in Active :
                     /\ HistoryIn(a.tracks, h) = Append(History(h), measurement')
                     /\ Get(a.hit_counts, h, -1) = HitCount(h) + 1
                     /\ \A o \in Active \ {h} : SameTrack(a, o)
            \/ /\ NewKey \notin Active
               /\ ActiveIn(a.tracks) = Active \cup {NewKey}
               /\ HistoryIn(a.tracks, NewKey) = << measurement' >>
               /\ \A o \in Active : SameTrack(a, o)]_vars

\* the last measurement was appended to one of three active tracks and is
\* in the history of no other
C18_Witness ==
    /\ pc = "loop"
    /\ assigned
    /\ Cardinality(Active) >= 3
    /\ \E h \in Active :
          /\ Len(History(h)) >= 2
          /\ Last(History(h)) = measurement
          /\ \A o \in Active \ {h} :
                \A j \in 1..Len(History(o)) : History(o)[j] # measurement

\* the slot with TrackId id is in the pool and occupied
Occupied(id) ==
    \E j \in 1..Len(track_id_list) :
       track_id_list[j].id = id /\ track_id_list[j].state = "occupied"

\* C19: when a cycle has finished, the track that received its measurement
\* is in the active table with missCount 0 and its slot is occupied; so the
\* table is not empty once a measurement has been processed.
C19_ReceiverStaysActive ==
    (pc \in {"loop", "returned"} /\ measurements # << >>) =>
       \E h \in Active :
          /\ Last(History(h)) = measurement
          /\ MissCount(h) = 0
          /\ Occupied(TrackId(h))

\* the positions of the table whose track carries TrackId id
Carriers(id) ==
    {j \in 1..Len(tracks) :
        /\ tracks[j] # None
        /\ (IF variant = "test1" THEN tracks[j].id ELSE tracks[j].track_id) = id}

\* C20: after every measurement processed to the end, a pool slot is
\* occupied exactly when one and only one active track carries its id, and
\* every active track carries the id of a pool slot.
C20_SlotsMatchTracks ==
    pc \in {"loop", "returned"} =>
       /\ \A j \in 1..Len(track_id_list) :
             (track_id_list[j].state = "occupied")
             <=> (Cardinality(Carriers(track_id_list[j].id)) = 1)
       /\ \A h \in Active :
             \E j \in 1..Len(track_id_list) : track_id_list[j].id = TrackId(h)

\* a track was removed from the table and its slot is free again: no active
\* track carries the id of the free slot
C20_Witness ==
    /\ pc = "loop"
    /\ measurements # << >>
    /\ \E j \in 1..Len(track_id_list) :
          /\ track_id_list[j].state = "free"
          /\ Carriers(track_id_list[j].id) = {}
    /\ \E j \in 1..Len(tracks) : tracks[j] = None

\* C21: after every measurement processed to the end, the hit count of every
\* active track equals the number of entries of its history: 1 for a track
\* just created, one more with every measurement appended to it, also once
\* the track is Firm.
C21_HitCountIsHistoryLength ==
    pc \in {"loop", "returned"} =>
       \A h \in Active : HitCount(h) = Len(History(h))

\* a track that became Firm with its third hit has taken two more
\* measurements since
C21_Witness ==
    /\ pc = "loop"
    /\ mode = "3-state"
    /\ \E h \in Active :
          /\ State(h) = "Firm"
          /\ Len(History(h)) >= 5
          /\ Last(History(h)) = measurement
          /\ HitCount(h) >= 5

Larger(a, b) == IF a > b THEN a ELSE b

\* C22: no step shortens the pool or changes the id of a slot, the slot at
\* index i has id i+1, and a finished cycle leaves the pool as long as the
\* larger of its length before the cycle and the number of tracks active
\* when the cycle's association step is done; the pool being empty at the
\* start, its length is the largest number of tracks active at once so far.
C22_PoolLengthIsPeak ==
    [][/\ Len(track_id_list') >= Len(track_id_list)
       /\ \A j \in 1..Len(track_id_list) : track_id_list'[j].id = track_id_list[j].id
       /\ \A j \in 1..Len(track_id_list') : track_id_list'[j].id = j
       /\ CycleDone =>
             \E a \in {Associated} :
                \E n \in {Cardinality(ActiveIn(a.tracks))} :
                   /\ Len(track_id_list') = Larger(Len(track_id_list), n)
                   /\ Len(track_id_list') >= Cardinality(Active')]_vars

\* the only track was removed and the pool still holds its slot, free, with
\* id 1
C22_Witness ==
    /\ pc = "loop"
    /\ measurements # << >>
    /\ Active = {}
    /\ track_id_list = << [id |-> 1, state |-> "free"] >>

====
